---- MODULE Spec2Model ----
(***************************************************************************)
(* Arianna-Method-Linux: the bridge's persistent console session           *)
(* (bridge.py, LetsGoProcess driving letsgo.py over pipes), the streaming  *)
(* command runner (letsgo.py, run_command), the log and history readers    *)
(* (letsgo.py, summarize and history), the Telegram streaming handler      *)
(* (bridge.py, handle_telegram) and the job table of spec.md.              *)
(*                                                                         *)
(* Text is a sequence of one-character strings, so that strip(),           *)
(* startswith() and readline() are computed, not assumed.                  *)
(***************************************************************************)
EXTENDS Integers, Sequences, FiniteSets, TLC

VARIABLES
    \* ---- bridge.py: LetsGoProcess and its callers ----
    proc,        \* LetsGoProcess.proc: "none" | "spawned"
    mainPc,      \* bridge.main / the ASGI app: "init" | "start_read" | "serving" | "app"
    call,        \* per handler: the run() call it has in flight
    waiter,      \* the coroutine blocked inside proc.stdout.readline(), or "none"
    last,        \* the outcome of the run() call that unwound most recently
    turns,       \* number of run() calls begun
    \* ---- the spawned letsgo.py console and its pipes ----
    conPc,       \* "none" | "boot" | "input" | "exited"
    conPrompt,   \* Settings.prompt of the spawned console
    stdinBuf,    \* lines written to the console's stdin, not yet read by input()
    outBuf,      \* bytes of the console's stdout not yet consumed by readline()
    outEof,      \* the console's end of the stdout pipe is closed
    sentinelPrinted, \* some command's own output held a sentinel line
    \* ---- letsgo.py: run_command ----
    rPc,         \* position of the run_command coroutine
    clock,       \* loop.time() - start, in seconds
    shell,       \* the spawned shell: "none" | "running" | "exited"
    rc,          \* exit status of the shell
    shellHolds,  \* the shell still has the output pipe open
    descHolds,   \* a descendant of the shell still has the output pipe open
    pipe,        \* raw lines written to the output pipe, not yet read
    written,     \* number of lines the process has written
    produced,    \* the raw lines the process has written, in order
    output_lines,\* run_command's output_lines
    sunk,        \* the lines handed to on_line
    caller,      \* who called run_command: "console" | "tg_stream" | "tg_plain"
    useColor,    \* USE_COLOR
    killed,      \* proc.kill() was called
    outcome,     \* how the call ended or is ending: "none" | "exited" |
                 \* "timed_out" | "error" | "spawn_failed" | "cancelled"
    result,      \* the text run_command returned
    terminal,    \* what main's "/run" branch has printed, one text per print()
    runReply,    \* main's reply, the text it logs
    runHandled,  \* main has printed and logged the reply of the "/run" input
    \* ---- letsgo.py: the files under LOG_DIR and the calls that read them ----
    logDirExists,\* LOG_DIR exists
    logFiles,    \* the lines of each *.log file
    historyFile, \* HISTORY_PATH: whether it exists, and its lines
    fnCall,      \* the summarize or history call whose reply is being printed
    fnResult,    \* what that call returned
    \* ---- bridge.py: handle_telegram, "/run -stream" ----
    tgPc,        \* position of the handler
    tgTask,      \* the task running exec_command: "none" | "running" |
                 \* "returned" | "cancelled"
    sends,       \* the send() tasks, in the order _cb created them
    tgLines,     \* the handler's lines
    sent,        \* the handler's sent: NoMessage (None) or a message
    tgCancelled, \* the handler's cancelled
    messages,    \* the text of each message created in the chat
    replyCalls,  \* number of calls of update.message.reply_text
    \* ---- JobTable (spec.md, section 4.3) ----
    jobs,        \* the table: per id, the job's state, buffer and reader
    jobStarted,  \* the ids start() has returned
    jobPipe,     \* per id, the lines the process wrote that the reader has not read
    jobProduced, \* per id, every line the process wrote, in order
    jobDelivered,\* per id, the lines poll() has returned, in order
    killOutcome, \* what the last kill() returned
    \* ---- bridge.py: the HTTP /run handler and _check_rate ----
    ratePc,      \* "init" | "serving"
    RATE_LIMIT,  \* RATE_LIMIT, in seconds
    wall,        \* what time.time() reads, in seconds
    _last_call,  \* _last_call: client -> time of its last accepted request
    accepts,     \* per client, the times at which _check_rate accepted it
    requested,   \* the clients whose requests have reached _check_rate
    httpReq      \* the last request handled and what became of it

oracleVars == <<proc, mainPc, call, waiter, last, turns, conPc, conPrompt,
                stdinBuf, outBuf, outEof, sentinelPrinted>>
runVars == <<rPc, clock, shell, rc, shellHolds, descHolds, pipe, written, produced,
             output_lines, sunk, caller, useColor, killed, outcome, result,
             terminal, runReply, runHandled>>
fileVars == <<logDirExists, logFiles, historyFile, fnCall, fnResult>>
tgVars == <<tgPc, tgTask, sends, tgLines, sent, tgCancelled, messages, replyCalls>>
jobVars == <<jobs, jobStarted, jobPipe, jobProduced, jobDelivered, killOutcome>>
rateVars == <<ratePc, RATE_LIMIT, wall, _last_call, accepts, requested, httpReq>>
vars == <<oracleVars, runVars, fileVars, tgVars, jobVars, rateVars>>

otherThanOracle == <<runVars, fileVars, tgVars, jobVars, rateVars>>
otherThanRun == <<oracleVars, fileVars, tgVars, jobVars, rateVars>>
otherThanFiles == <<oracleVars, runVars, tgVars, jobVars, rateVars>>
otherThanTg == <<oracleVars, runVars, fileVars, jobVars, rateVars>>
otherThanJobs == <<oracleVars, runVars, fileVars, tgVars, rateVars>>
otherThanRate == <<oracleVars, runVars, fileVars, tgVars, jobVars>>

-----------------------------------------------------------------------------
(* Bounds of the model *)
MaxTurns == 2
MaxOut == 2
SmallBound == 1
MaxFiles == 2
MaxLogLines == 6
MaxHistory == 3
MaxJobs == 1
MaxJobLines == 4
MaxNow == 4

-----------------------------------------------------------------------------
(* Text *)

NL == "\n"
SP == " "

IsSpace(c) == c \in {SP, NL}

RECURSIVE lstrip(_)
lstrip(s) == IF s # <<>> /\ IsSpace(Head(s)) THEN lstrip(Tail(s)) ELSE s

RECURSIVE rstrip(_)
rstrip(s) ==
    IF s # <<>> /\ IsSpace(s[Len(s)]) THEN rstrip(SubSeq(s, 1, Len(s) - 1)) ELSE s

strip(s) == lstrip(rstrip(s))

startswith(s, p) == Len(s) >= Len(p) /\ SubSeq(s, 1, Len(p)) = p

Contains(s, p) ==
    \E i \in 1..(Len(s) - Len(p) + 1) : SubSeq(s, i, i + Len(p) - 1) = p

LowerChar(c) ==
    CASE c = "E" -> "e" [] c = "X" -> "x" [] c = "I" -> "i" [] c = "T" -> "t"
      [] c = "Q" -> "q" [] c = "U" -> "u" [] OTHER -> c

lower(s) == [i \in 1..Len(s) |-> LowerChar(s[i])]

RECURSIVE join(_, _)
join(sep, ls) ==
    IF ls = <<>> THEN <<>>
    ELSE IF Len(ls) = 1 THEN ls[1]
    ELSE ls[1] \o sep \o join(sep, Tail(ls))

IsPrefix(s, t) == Len(s) <= Len(t) /\ SubSeq(t, 1, Len(s)) = s

\* The sequences of ls, one after the other
RECURSIVE Concat(_)
Concat(ls) == IF ls = <<>> THEN <<>> ELSE Head(ls) \o Concat(Tail(ls))

RECURSIVE PrintAll(_)
PrintAll(ls) == IF ls = <<>> THEN <<>> ELSE Head(ls) \o <<NL>> \o PrintAll(Tail(ls))

-----------------------------------------------------------------------------
(* letsgo.py as the spawned console: what it prints for a line of input.    *)
(* A literal chunk of output that holds no space, newline or '>' is kept as *)
(* one element of the text.                                                 *)

PROMPT == <<">", ">">>

Banner == <<"LetsGo terminal ready. Type 'exit' to quit.">>

\* Settings.prompt: the default, and two values ~/.letsgo/config can set
\* (_load_settings decodes "\n"): the prompt on a line of its own, and the
\* prompt on a line of its own followed by an inline prompt.
PromptDefault == <<">", ">", SP>>
PromptLine == <<">", ">", NL>>
PromptInline == <<">", ">", NL, ">", ">", SP>>
Prompts == {PromptDefault, PromptLine, PromptInline}

Hi == <<"h", "i">>
Exit == <<"e", "x", "i", "t">>
Quit == <<"q", "u", "i", "t">>
RunPrefix == <<"/", "r", "u", "n", SP>>
RunNoop == RunPrefix \o <<":">>
RunEcho == RunPrefix \o <<"echo '>>'">>
Cmds == {Hi, Exit, RunNoop, RunEcho}

\* user.partition(" ")[2]
AfterFirstSpace(s) ==
    IF \E i \in 1..Len(s) : s[i] = SP
    THEN LET k == CHOOSE i \in 1..Len(s) :
                      s[i] = SP /\ \A j \in 1..(i - 1) : s[j] # SP
         IN SubSeq(s, k + 1, Len(s))
    ELSE <<>>

\* The output lines of the shell commands the console is asked to run; both
\* exit with status 0 at once.
ShellLines(command) ==
    IF command = <<"echo '>>'">> THEN <<PROMPT>> ELSE <<>>

\* main, lines 321-322
ConsoleExits(user) == lower(strip(user)) \in {Exit, Quit}

\* main, lines 330-340 and 379-383, under --no-color: a /run command prints
\* its lines through _cb and nothing more (reply = combined); any other input
\* of Cmds is echoed.
ConsolePrinted(user) ==
    IF startswith(user, RunPrefix)
    THEN PrintAll(ShellLines(AfterFirstSpace(user)))
    ELSE <<"echo: ">> \o user \o <<NL>>

-----------------------------------------------------------------------------
(* asyncio.StreamReader.readline() on the console's stdout *)

LineAvail == \E i \in 1..Len(outBuf) : outBuf[i] = NL
FirstNL == CHOOSE i \in 1..Len(outBuf) :
               outBuf[i] = NL /\ \A j \in 1..(i - 1) : outBuf[j] # NL
\* readline() returns at once when a whole line is buffered or at end of file
CanRead == LineAvail \/ outEof
ReadResult == IF LineAvail THEN SubSeq(outBuf, 1, FirstNL) ELSE outBuf
ReadRest == IF LineAvail THEN SubSeq(outBuf, FirstNL + 1, Len(outBuf)) ELSE <<>>

-----------------------------------------------------------------------------
(* The console process *)

ConsoleAlive == conPc \in {"boot", "input"}

\* main, lines 312-318: the banner, then input(prompt) writes the prompt and
\* flushes stdout
ConsoleBoot ==
    /\ conPc = "boot"
    /\ outBuf' = outBuf \o Banner \o <<NL>> \o conPrompt
    /\ conPc' = "input"
    /\ UNCHANGED otherThanOracle
    /\ UNCHANGED <<proc, mainPc, call, waiter, last, turns, conPrompt, stdinBuf,
                   outEof, sentinelPrinted>>

\* _ensure_log_dir: SystemExit(1) before anything is printed to stdout
ConsoleBootFail ==
    /\ conPc = "boot"
    /\ conPc' = "exited"
    /\ outEof' = TRUE
    /\ stdinBuf' = <<>>
    /\ UNCHANGED otherThanOracle
    /\ UNCHANGED <<proc, mainPc, call, waiter, last, turns, conPrompt, outBuf,
                   sentinelPrinted>>

\* One iteration of main's loop: input() returns a line, the reply is
\* printed, and the next input(prompt) writes the prompt and flushes.
ConsoleTurn ==
    /\ conPc = "input"
    /\ stdinBuf # <<>>
    /\ ~ConsoleExits(Head(stdinBuf))
    /\ outBuf' = outBuf \o ConsolePrinted(Head(stdinBuf)) \o conPrompt
    /\ stdinBuf' = Tail(stdinBuf)
    /\ sentinelPrinted' =
           (sentinelPrinted \/ Contains(ConsolePrinted(Head(stdinBuf)), PROMPT))
    /\ UNCHANGED otherThanOracle
    /\ UNCHANGED <<proc, mainPc, call, waiter, last, turns, conPc, conPrompt, outEof>>

\* main, lines 321-322 and 385: "exit" ends the loop and the process
ConsoleExit ==
    /\ conPc = "input"
    /\ stdinBuf # <<>>
    /\ ConsoleExits(Head(stdinBuf))
    /\ conPc' = "exited"
    /\ outEof' = TRUE
    /\ stdinBuf' = <<>>
    /\ UNCHANGED otherThanOracle
    /\ UNCHANGED <<proc, mainPc, call, waiter, last, turns, conPrompt, outBuf,
                   sentinelPrinted>>

\* The console process is killed from outside
ConsoleDie ==
    /\ ConsoleAlive
    /\ conPc' = "exited"
    /\ outEof' = TRUE
    /\ stdinBuf' = <<>>
    /\ UNCHANGED otherThanOracle
    /\ UNCHANGED <<proc, mainPc, call, waiter, last, turns, conPrompt, outBuf,
                   sentinelPrinted>>

-----------------------------------------------------------------------------
(* bridge.py: main, LetsGoProcess.start and _read_until_prompt *)

\* The coroutines that call letsgo.run: the HTTP /run handler, the WebSocket
\* handler and the Telegram handler
Handlers == {"http", "ws", "tg"}

Idle == [pc |-> "idle", cmd |-> <<>>, lines |-> <<>>, overlap |-> FALSE, dead |-> FALSE]

NoOutcome == [h |-> "none", cmd |-> <<>>, kind |-> "none", reply |-> <<>>,
              byEof |-> FALSE, dead |-> FALSE, overlap |-> FALSE]

\* bridge.main awaits letsgo.start(): create_subprocess_exec, then
\* _read_until_prompt. The spawned console loads its own settings.
MainStart ==
    /\ mainPc = "init"
    /\ proc' = "spawned"
    /\ conPc' = "boot"
    /\ \E p \in Prompts : conPrompt' = p
    /\ mainPc' = "start_read"
    /\ UNCHANGED otherThanOracle
    /\ UNCHANGED <<call, waiter, last, turns, stdinBuf, outBuf, outEof, sentinelPrinted>>

\* The ASGI app is served without bridge.main (as tests/test_webapp.py does):
\* start() is never called
ServeApp ==
    /\ mainPc = "init"
    /\ mainPc' = "app"
    /\ UNCHANGED otherThanOracle
    /\ UNCHANGED <<proc, call, waiter, last, turns, conPc, conPrompt, stdinBuf,
                   outBuf, outEof, sentinelPrinted>>

\* One iteration of _read_until_prompt's loop
StartReadLine ==
    /\ mainPc = "start_read"
    /\ CanRead
    /\ outBuf' = ReadRest
    /\ mainPc' = IF ReadResult = <<>> \/ strip(ReadResult) = PROMPT
                 THEN "serving" ELSE "start_read"
    /\ UNCHANGED otherThanOracle
    /\ UNCHANGED <<proc, call, waiter, last, turns, conPc, conPrompt, stdinBuf,
                   outEof, sentinelPrinted>>

-----------------------------------------------------------------------------
(* bridge.py: LetsGoProcess.run, called by handler h *)

Serving == mainPc \in {"serving", "app"}
InFlight(h) == call[h].pc # "idle"

Outcome(h, kind, reply, byEof) ==
    [h |-> h, cmd |-> call[h].cmd, kind |-> kind, reply |-> reply, byEof |-> byEof,
     dead |-> call[h].dead, overlap |-> call[h].overlap]

\* lines 45-46: raise RuntimeError("process not started")
RunNotStarted(h, cmd) ==
    /\ Serving
    /\ ~InFlight(h)
    /\ turns < MaxTurns
    /\ proc = "none"
    /\ turns' = turns + 1
    /\ last' = [NoOutcome EXCEPT !.h = h, !.cmd = cmd, !.kind = "not_started"]
    /\ UNCHANGED otherThanOracle
    /\ UNCHANGED <<proc, mainPc, call, waiter, conPc, conPrompt, stdinBuf, outBuf,
                   outEof, sentinelPrinted>>

\* lines 47-49: stdin.write(cmd + "\n"), then the await of drain()
RunWrite(h, cmd) ==
    /\ Serving
    /\ ~InFlight(h)
    /\ turns < MaxTurns
    /\ proc # "none"
    /\ turns' = turns + 1
    /\ stdinBuf' = IF ConsoleAlive THEN Append(stdinBuf, cmd) ELSE stdinBuf
    /\ call' = [g \in Handlers |->
                   IF g = h
                   THEN [pc |-> "drain", cmd |-> cmd, lines |-> <<>>,
                         overlap |-> \E o \in Handlers \ {h} : InFlight(o),
                         dead |-> outEof]
                   ELSE IF InFlight(g) THEN [call[g] EXCEPT !.overlap = TRUE]
                   ELSE call[g]]
    /\ UNCHANGED otherThanOracle
    /\ UNCHANGED <<proc, mainPc, waiter, last, conPc, conPrompt, outBuf, outEof,
                   sentinelPrinted>>

\* drain() returns
RunDrain(h) ==
    /\ call[h].pc = "drain"
    /\ call' = [call EXCEPT ![h].pc = "read"]
    /\ UNCHANGED otherThanOracle
    /\ UNCHANGED <<proc, mainPc, waiter, last, turns, conPc, conPrompt, stdinBuf,
                   outBuf, outEof, sentinelPrinted>>

\* drain() raises ConnectionResetError: the loss of the stdin pipe of an
\* exited console has been noticed
RunDrainReset(h) ==
    /\ call[h].pc = "drain"
    /\ conPc = "exited"
    /\ last' = Outcome(h, "conn_reset", <<>>, FALSE)
    /\ call' = [call EXCEPT ![h] = Idle]
    /\ UNCHANGED otherThanOracle
    /\ UNCHANGED <<proc, mainPc, waiter, turns, conPc, conPrompt, stdinBuf, outBuf,
                   outEof, sentinelPrinted>>

\* readline() finds neither a line nor end of file: the coroutine becomes the
\* stream's waiter
RunBlock(h) ==
    /\ call[h].pc = "read"
    /\ ~CanRead
    /\ waiter = "none"
    /\ waiter' = h
    /\ call' = [call EXCEPT ![h].pc = "wait"]
    /\ UNCHANGED otherThanOracle
    /\ UNCHANGED <<proc, mainPc, last, turns, conPc, conPrompt, stdinBuf, outBuf,
                   outEof, sentinelPrinted>>

\* readline() while another coroutine is the stream's waiter: asyncio raises
\* RuntimeError out of run()
RunReaderBusy(h) ==
    /\ call[h].pc = "read"
    /\ ~CanRead
    /\ waiter # "none"
    /\ last' = Outcome(h, "reader_busy", <<>>, FALSE)
    /\ call' = [call EXCEPT ![h] = Idle]
    /\ UNCHANGED otherThanOracle
    /\ UNCHANGED <<proc, mainPc, waiter, turns, conPc, conPrompt, stdinBuf, outBuf,
                   outEof, sentinelPrinted>>

\* h is at readline() and readline() has something to return
Reading(h) ==
    /\ CanRead
    /\ \/ call[h].pc = "read"
       \/ call[h].pc = "wait" /\ waiter = h

\* line 61: return "".join(lines).strip()
Reply(h) == strip(call[h].lines)

\* lines 53-54: readline() returned b"": break, and the reply is returned
RunReadEof(h) ==
    /\ Reading(h)
    /\ ReadResult = <<>>
    /\ last' = Outcome(h, "reply", Reply(h), TRUE)
    /\ call' = [call EXCEPT ![h] = Idle]
    /\ waiter' = IF waiter = h THEN "none" ELSE waiter
    /\ outBuf' = ReadRest
    /\ UNCHANGED otherThanOracle
    /\ UNCHANGED <<proc, mainPc, turns, conPc, conPrompt, stdinBuf, outEof,
                   sentinelPrinted>>

\* lines 55-57: the line is the sentinel: break, and the reply is returned
RunReadSentinel(h) ==
    /\ Reading(h)
    /\ ReadResult # <<>>
    /\ strip(ReadResult) = PROMPT
    /\ last' = Outcome(h, "reply", Reply(h), FALSE)
    /\ call' = [call EXCEPT ![h] = Idle]
    /\ waiter' = IF waiter = h THEN "none" ELSE waiter
    /\ outBuf' = ReadRest
    /\ UNCHANGED otherThanOracle
    /\ UNCHANGED <<proc, mainPc, turns, conPc, conPrompt, stdinBuf, outEof,
                   sentinelPrinted>>

\* lines 58-59: a leading "sentinel + space" is cut off
StripPrompt(text) ==
    IF startswith(text, PROMPT \o <<SP>>)
    THEN SubSeq(text, Len(PROMPT) + 2, Len(text))
    ELSE text

\* lines 58-60: any other line is appended
RunReadAppend(h) ==
    /\ Reading(h)
    /\ ReadResult # <<>>
    /\ strip(ReadResult) # PROMPT
    /\ call' = [call EXCEPT ![h].pc = "read",
                            ![h].lines = @ \o StripPrompt(ReadResult)]
    /\ waiter' = IF waiter = h THEN "none" ELSE waiter
    /\ outBuf' = ReadRest
    /\ UNCHANGED otherThanOracle
    /\ UNCHANGED <<proc, mainPc, last, turns, conPc, conPrompt, stdinBuf, outEof,
                   sentinelPrinted>>

-----------------------------------------------------------------------------
(* letsgo.py: run_command *)

\* The 10 of "remaining = 10 - (loop.time() - start)"
Deadline == 10
MaxClock == Deadline + SmallBound + 1

\* The lines a command may write, each as readline() returns it
RawLines == {<<"a", NL>>, <<NL>>, <<SP, "a", SP, NL>>}

\* console: main's "/run" branch, with the printing _cb; tg_stream:
\* handle_telegram's "/run -stream", with the message-editing _cb, which may
\* cancel the task; tg_plain: handle_telegram's "/run", without on_line
Callers == {"console", "tg_stream", "tg_plain"}
HasSink == caller \in {"console", "tg_stream"}

\* ColorScheme.error and ColorScheme.reset, each one element of the text
ColorError == <<"ESC[31m">>
ColorReset == <<"ESC[0m">>

\* color(text, "error")
color_always(text) == ColorError \o text \o ColorReset
color(text) == IF useColor THEN ColorError \o text \o ColorReset ELSE text

TimedOutMsg == <<"command timed out">>

\* line 203 and line 211
TimedOutResult_partial == strip(join(<<NL>>, output_lines))
TimedOutResult == color(TimedOutMsg)

\* line 214: line.decode().rstrip()
decode_raw(line) == line
decode(line) == rstrip(line)

\* line 219: "\n".join(output_lines).strip()
FinalOutput_rstrip(lines) == rstrip(join(<<NL>>, lines))
FinalOutput(lines) == strip(join(<<NL>>, lines))

\* readline() would return b"": every holder of the pipe's write end closed it
PipeEof == pipe = <<>> /\ ~shellHolds /\ ~descHolds

\* lines 190-197: the shell is spawned and start = loop.time()
Spawn(who, colr, desc) ==
    /\ rPc = "init"
    /\ caller' = who
    /\ useColor' = colr
    /\ shell' = "running"
    /\ shellHolds' = TRUE
    /\ descHolds' = desc
    /\ clock' = 0
    /\ rPc' = "loop"
    /\ UNCHANGED otherThanRun
    /\ UNCHANGED <<rc, pipe, written, produced, output_lines, sunk, killed, outcome, result>>
    /\ UNCHANGED <<terminal, runReply, runHandled>>

\* str() of the OSError that create_subprocess_shell raises when fork or
\* pipe() fails
SpawnErrors == {<<"[Errno 11] Resource temporarily unavailable">>,
                <<"[Errno 24] Too many open files">>}

\* lines 190-194, then 223-224: create_subprocess_shell raises; "except
\* Exception" returns color(str(exc), "error")
SpawnFail_raises(who, colr, err) ==
    /\ rPc = "init"
    /\ caller' = who
    /\ useColor' = colr
    /\ outcome' = "spawn_failed"
    /\ rPc' = "raised"
    /\ UNCHANGED otherThanRun
    /\ UNCHANGED <<clock, shell, rc, shellHolds, descHolds, pipe, written, produced,
                   output_lines, sunk, killed, result>>
    /\ UNCHANGED <<terminal, runReply, runHandled>>

SpawnFail(who, colr, err) ==
    /\ rPc = "init"
    /\ caller' = who
    /\ useColor' = colr
    /\ result' = IF colr THEN ColorError \o err \o ColorReset ELSE err
    /\ outcome' = "spawn_failed"
    /\ rPc' = "returned"
    /\ UNCHANGED otherThanRun
    /\ UNCHANGED <<clock, shell, rc, shellHolds, descHolds, pipe, written, produced,
                   output_lines, sunk, killed>>
    /\ UNCHANGED <<terminal, runReply, runHandled>>

\* proc.kill(): SIGKILL to the shell alone
Kill ==
    /\ killed' = TRUE
    /\ shell' = "exited"
    /\ rc' = IF shell = "running" THEN -9 ELSE rc
    /\ shellHolds' = FALSE

\* lines 199-202: remaining <= 0
LoopTimeout ==
    /\ rPc = "loop"
    /\ Deadline - clock <= 0
    /\ Kill
    /\ outcome' = "timed_out"
    /\ rPc' = "communicate"
    /\ UNCHANGED otherThanRun
    /\ UNCHANGED <<clock, descHolds, pipe, written, produced, output_lines, sunk, caller,
                   useColor, result>>
    /\ UNCHANGED <<terminal, runReply, runHandled>>

\* lines 199-207: remaining > 0, readline() is awaited under wait_for
LoopRead ==
    /\ rPc = "loop"
    /\ Deadline - clock > 0
    /\ rPc' = "read"
    /\ UNCHANGED otherThanRun
    /\ UNCHANGED <<clock, shell, rc, shellHolds, descHolds, pipe, written, produced,
                   output_lines, sunk, caller, useColor, killed, outcome, result>>
    /\ UNCHANGED <<terminal, runReply, runHandled>>

\* lines 212-216: a line arrived; it is decoded and appended to output_lines
ReadLine ==
    /\ rPc = "read"
    /\ pipe # <<>>
    /\ output_lines' = Append(output_lines, decode(Head(pipe)))
    /\ pipe' = Tail(pipe)
    /\ rPc' = IF HasSink THEN "sink" ELSE "loop"
    /\ UNCHANGED otherThanRun
    /\ UNCHANGED <<clock, shell, rc, shellHolds, descHolds, written, produced, sunk,
                   caller, useColor, killed, outcome, result>>
    /\ UNCHANGED <<terminal, runReply, runHandled>>

\* line 217: on_line(decoded), the line just appended; main's _cb (lines
\* 333-335) appends it to lines and prints it
CallSink_first ==
    /\ rPc = "sink"
    /\ sunk' = Append(sunk, output_lines[1])
    /\ terminal' = IF caller = "console" THEN Append(terminal, output_lines[1])
                   ELSE terminal
    /\ rPc' = "loop"
    /\ UNCHANGED otherThanRun
    /\ UNCHANGED <<clock, shell, rc, shellHolds, descHolds, pipe, written, produced,
                   output_lines, caller, useColor, killed, outcome, result>>
    /\ UNCHANGED <<runReply, runHandled>>

CallSink ==
    /\ rPc = "sink"
    /\ sunk' = Append(sunk, output_lines[Len(output_lines)])
    /\ terminal' = IF caller = "console" THEN Append(terminal, output_lines[Len(output_lines)])
                   ELSE terminal
    /\ rPc' = "loop"
    /\ UNCHANGED otherThanRun
    /\ UNCHANGED <<clock, shell, rc, shellHolds, descHolds, pipe, written, produced,
                   output_lines, caller, useColor, killed, outcome, result>>
    /\ UNCHANGED <<runReply, runHandled>>

\* lines 212-213 and 218: end of file, then the await of proc.wait()
ReadEof ==
    /\ rPc = "read"
    /\ PipeEof
    /\ rPc' = "wait"
    /\ UNCHANGED otherThanRun
    /\ UNCHANGED <<clock, shell, rc, shellHolds, descHolds, pipe, written, produced,
                   output_lines, sunk, caller, useColor, killed, outcome, result>>
    /\ UNCHANGED <<terminal, runReply, runHandled>>

\* lines 208-210: wait_for raised TimeoutError
ReadTimeout ==
    /\ rPc = "read"
    /\ clock >= Deadline
    /\ Kill
    /\ outcome' = "timed_out"
    /\ rPc' = "communicate"
    /\ UNCHANGED otherThanRun
    /\ UNCHANGED <<clock, descHolds, pipe, written, produced, output_lines, sunk, caller,
                   useColor, result>>
    /\ UNCHANGED <<terminal, runReply, runHandled>>

\* The asyncio transport of a shell that exited and whose pipe everyone closed
\* may already be closed: proc.kill() then raises ProcessLookupError
TransportClosed == shell = "exited" /\ ~shellHolds /\ ~descHolds

\* lines 201 or 209, then 223-224: proc.kill() raises ProcessLookupError, whose
\* str() is empty, and "except Exception" returns color(str(exc), "error")
KillRaises ==
    /\ \/ rPc = "loop" /\ Deadline - clock <= 0
       \/ rPc = "read" /\ clock >= Deadline
    /\ TransportClosed
    /\ result' = color(<<>>)
    /\ outcome' = "error"
    /\ rPc' = "returned"
    /\ UNCHANGED otherThanRun
    /\ UNCHANGED <<clock, shell, rc, shellHolds, descHolds, pipe, written, produced,
                   output_lines, sunk, caller, useColor, killed>>
    /\ UNCHANGED <<terminal, runReply, runHandled>>

\* lines 202-203 and 210-211: communicate() has read the pipe to its end and
\* the shell is reaped; the timed-out text is returned
CommunicateDone ==
    /\ rPc = "communicate"
    /\ ~shellHolds /\ ~descHolds
    /\ shell = "exited"
    /\ pipe' = <<>>
    /\ result' = TimedOutResult
    /\ rPc' = "returned"
    /\ UNCHANGED otherThanRun
    /\ UNCHANGED <<clock, shell, rc, shellHolds, descHolds, written, produced, output_lines,
                   sunk, caller, useColor, killed, outcome>>
    /\ UNCHANGED <<terminal, runReply, runHandled>>

\* lines 218-222: proc.wait() returned
WaitDone ==
    /\ rPc = "wait"
    /\ shell = "exited"
    /\ result' = IF rc # 0 THEN color(FinalOutput(output_lines))
                 ELSE FinalOutput(output_lines)
    /\ outcome' = "exited"
    /\ rPc' = "returned"
    /\ UNCHANGED otherThanRun
    /\ UNCHANGED <<clock, shell, rc, shellHolds, descHolds, pipe, written, produced,
                   output_lines, sunk, caller, useColor, killed>>
    /\ UNCHANGED <<terminal, runReply, runHandled>>

\* run_command is suspended in an await
Awaiting == rPc \in {"read", "communicate", "wait"}

\* bridge.py, lines 140-143: a send() task met TelegramError and called
\* task.cancel(); CancelledError is raised at the await and is not an
\* Exception, so it leaves run_command through no handler
Cancel_returned ==
    /\ caller = "tg_stream"
    /\ sunk # <<>>
    /\ Awaiting
    /\ rPc' = "returned"
    /\ outcome' = "cancelled"
    /\ result' = color(<<"cancelled">>)
    /\ UNCHANGED otherThanRun
    /\ UNCHANGED <<clock, shell, rc, shellHolds, descHolds, pipe, written, produced,
                   output_lines, sunk, caller, useColor, killed>>
    /\ UNCHANGED <<terminal, runReply, runHandled>>

Cancel ==
    /\ caller = "tg_stream"
    /\ sunk # <<>>
    /\ Awaiting
    /\ rPc' = "cancelled"
    /\ outcome' = "cancelled"
    /\ UNCHANGED otherThanRun
    /\ UNCHANGED <<clock, shell, rc, shellHolds, descHolds, pipe, written, produced,
                   output_lines, sunk, caller, useColor, killed, result>>
    /\ UNCHANGED <<terminal, runReply, runHandled>>

\* The spawned process: it writes a line
ProcWrite(l) ==
    /\ shell = "running"
    /\ shellHolds
    /\ written < MaxOut
    /\ pipe' = Append(pipe, l)
    /\ written' = written + 1
    /\ produced' = Append(produced, l)
    /\ UNCHANGED otherThanRun
    /\ UNCHANGED <<rPc, clock, shell, rc, shellHolds, descHolds, output_lines, sunk,
                   caller, useColor, killed, outcome, result>>
    /\ UNCHANGED <<terminal, runReply, runHandled>>

\* it closes its stdout and stderr and keeps running
ProcCloseStdout ==
    /\ shell = "running"
    /\ shellHolds
    /\ shellHolds' = FALSE
    /\ UNCHANGED otherThanRun
    /\ UNCHANGED <<rPc, clock, shell, rc, descHolds, pipe, written, produced, output_lines,
                   sunk, caller, useColor, killed, outcome, result>>
    /\ UNCHANGED <<terminal, runReply, runHandled>>

\* it exits
ProcExit(code) ==
    /\ shell = "running"
    /\ shell' = "exited"
    /\ rc' = code
    /\ shellHolds' = FALSE
    /\ UNCHANGED otherThanRun
    /\ UNCHANGED <<rPc, clock, descHolds, pipe, written, produced, output_lines, sunk, caller,
                   useColor, killed, outcome, result>>
    /\ UNCHANGED <<terminal, runReply, runHandled>>

\* the descendant that inherited the pipe exits
DescExit ==
    /\ descHolds
    /\ descHolds' = FALSE
    /\ UNCHANGED otherThanRun
    /\ UNCHANGED <<rPc, clock, shell, rc, shellHolds, pipe, written, produced, output_lines,
                   sunk, caller, useColor, killed, outcome, result>>
    /\ UNCHANGED <<terminal, runReply, runHandled>>

\* run_command can take no step until the process acts or time passes
Blocked ==
    \/ rPc = "read" /\ pipe = <<>> /\ ~PipeEof /\ clock < Deadline
    \/ rPc = "communicate" /\ (shellHolds \/ descHolds)
    \/ rPc = "wait" /\ shell = "running"

\* A second passes while run_command is blocked
Tick ==
    /\ Blocked
    /\ clock < MaxClock
    /\ clock' = clock + 1
    /\ UNCHANGED otherThanRun
    /\ UNCHANGED <<rPc, shell, rc, shellHolds, descHolds, pipe, written, produced,
                   output_lines, sunk, caller, useColor, killed, outcome, result>>
    /\ UNCHANGED <<terminal, runReply, runHandled>>

\* letsgo.py main, lines 337-340 and 382-384: run_command has returned; lines
\* holds what _cb was given; the reply is printed unless it equals the
\* stripped join of the lines, and then logged
MainReply ==
    /\ rPc = "returned"
    /\ caller = "console"
    /\ ~runHandled
    /\ LET combined == strip(join(<<NL>>, sunk))
           printIt == result # combined
       IN  /\ terminal' = IF printIt THEN Append(terminal, result) ELSE terminal
           /\ runReply' = IF printIt /\ result # <<>> THEN result ELSE combined
    /\ runHandled' = TRUE
    /\ UNCHANGED otherThanRun
    /\ UNCHANGED <<rPc, clock, shell, rc, shellHolds, descHolds, pipe, written, produced,
                   output_lines, sunk, caller, useColor, killed, outcome, result>>

RunInit ==
    /\ rPc = "init"
    /\ clock = 0
    /\ shell = "none"
    /\ rc = 0
    /\ shellHolds = FALSE
    /\ descHolds = FALSE
    /\ pipe = <<>>
    /\ written = 0
    /\ produced = <<>>
    /\ output_lines = <<>>
    /\ sunk = <<>>
    /\ caller = "console"
    /\ useColor = FALSE
    /\ killed = FALSE
    /\ outcome = "none"
    /\ result = <<>>
    /\ terminal = <<>>
    /\ runReply = <<>>
    /\ runHandled = FALSE

-----------------------------------------------------------------------------
(* letsgo.py: the log directory, the history file, summarize and history *)

\* The names of the session logs under LOG_DIR, numbered in the order
\* sorted() gives their paths
LogNames == 1..MaxFiles

\* Lines of a log or of the history file, without their "\n"
FileLines == {<<"f", "1">>, <<"f", "2">>, <<"b">>}

NoFile == [exists |-> FALSE, lines |-> <<>>]
NoCall == [op |-> "none", term |-> <<>>, limit |-> 0, history |-> FALSE]

\* _ensure_log_dir, line 128: LOG_DIR.mkdir(parents=True, exist_ok=True)
MakeLogDir ==
    /\ fnCall.op = "none"
    /\ ~logDirExists
    /\ logDirExists' = TRUE
    /\ UNCHANGED <<logFiles, historyFile, fnCall, fnResult>>
    /\ UNCHANGED otherThanFiles

\* log(), lines 146-148, of the session whose log is f: one line is appended
Log(f, line) ==
    /\ fnCall.op = "none"
    /\ logDirExists
    /\ Len(Concat(logFiles)) < MaxLogLines
    /\ logFiles' = [logFiles EXCEPT ![f] = Append(@, line)]
    /\ UNCHANGED <<logDirExists, historyFile, fnCall, fnResult>>
    /\ UNCHANGED otherThanFiles

\* line 310: readline.write_history_file at exit; the file has one more
\* command than before
WriteHistory(line) ==
    /\ fnCall.op = "none"
    /\ logDirExists
    /\ Len(historyFile.lines) < MaxHistory
    /\ historyFile' = [exists |-> TRUE, lines |-> Append(historyFile.lines, line)]
    /\ UNCHANGED <<logDirExists, logFiles, fnCall, fnResult>>
    /\ UNCHANGED otherThanFiles

\* _iter_log_lines: the lines of sorted(LOG_DIR.glob("*.log")), file by file
RECURSIVE IterFrom(_)
IterFrom(f) == IF f > MaxFiles THEN <<>> ELSE logFiles[f] \o IterFrom(f + 1)

RECURSIVE IterDownFrom(_)
IterDownFrom(f) == IF f < 1 THEN <<>> ELSE logFiles[f] \o IterDownFrom(f - 1)

_iter_log_lines_unsorted == IterDownFrom(MaxFiles)
_iter_log_lines == IterFrom(1)

\* re.compile(term) raises re.error
InvalidTerm == <<"(">>
\* pattern.search(line), for a term without metacharacters
Search(term, line) == Contains(line, term)

\* deque(maxlen=limit).append(x)
DequeAppend(d, x, maxlen) ==
    IF maxlen = 0 THEN <<>>
    ELSE IF Len(d) = maxlen THEN Append(Tail(d), x)
    ELSE Append(d, x)

\* lines 275-278: the loop that fills matches
RECURSIVE Matches(_, _, _, _)
Matches(lines, term, limit, d) ==
    IF lines = <<>> THEN d
    ELSE Matches(Tail(lines), term, limit,
                 IF term = <<>> \/ Search(term, Head(lines))
                 THEN DequeAppend(d, Head(lines), limit) ELSE d)

\* summarize(term, limit, history); a term of None is the empty term
summarize(term, limit, hist) ==
    IF hist /\ ~historyFile.exists THEN <<"no history">>
    ELSE IF ~hist /\ ~logDirExists THEN <<"no logs">>
    ELSE IF term = InvalidTerm THEN <<"invalid pattern">>
    ELSE LET lines == IF hist THEN historyFile.lines ELSE _iter_log_lines
             matches == Matches(lines, term, limit, <<>>)
         IN  IF matches # <<>> THEN join(<<NL>>, matches) ELSE <<"no matches">>

\* seq[start:] of Python, start of either sign
SliceFrom(seq, start) ==
    LET n == Len(seq)
        from == IF start < 0 THEN (IF n + start > 0 THEN n + start ELSE 0)
                ELSE (IF start < n THEN start ELSE n)
    IN  SubSeq(seq, from + 1, n)

\* history(limit)
history(limit) ==
    IF ~historyFile.exists THEN <<"no history">>
    ELSE join(<<NL>>, SliceFrom(historyFile.lines, 0 - limit))

\* limit: int = 5 of summarize, limit: int = 20 of history
DefaultLimit == 5
DefaultHistoryLimit == 20

\* main, lines 362-374: "/summarize [term [limit]] [--history]"
Summarize(term, limit, hist) ==
    /\ fnCall.op = "none"
    /\ fnCall' = [op |-> "summarize", term |-> term, limit |-> limit, history |-> hist]
    /\ fnResult' = summarize(term, limit, hist)
    /\ UNCHANGED <<logDirExists, logFiles, historyFile>>
    /\ UNCHANGED otherThanFiles

\* main, lines 344-352: "/history [N]"
History(limit) ==
    /\ fnCall.op = "none"
    /\ fnCall' = [op |-> "history", term |-> <<>>, limit |-> limit, history |-> TRUE]
    /\ fnResult' = history(limit)
    /\ UNCHANGED <<logDirExists, logFiles, historyFile>>
    /\ UNCHANGED otherThanFiles

\* main, lines 382-384: the reply is printed and the loop asks for input again
Printed ==
    /\ fnCall.op # "none"
    /\ fnCall' = NoCall
    /\ fnResult' = <<>>
    /\ UNCHANGED <<logDirExists, logFiles, historyFile>>
    /\ UNCHANGED otherThanFiles

FilesInit ==
    /\ logDirExists = FALSE
    /\ logFiles = [f \in LogNames |-> <<>>]
    /\ historyFile = NoFile
    /\ fnCall = NoCall
    /\ fnResult = <<>>

Terms == {<<>>, <<"f">>, <<"2">>, InvalidTerm}
Limits == {0, 1, 2, DefaultLimit}
HistoryLimits == {0, 1, 2, DefaultHistoryLimit}

-----------------------------------------------------------------------------
(* bridge.py: handle_telegram, the "/run -stream" branch *)

\* The decoded lines run_command may hand to _cb
StreamLines == {<<"a">>, <<"b">>}

NoMessage == 0

\* line 147: task = asyncio.create_task(exec_command(command, _cb)), then the
\* await of the task
TgStream ==
    /\ tgPc = "idle"
    /\ tgPc' = "await_task"
    /\ tgTask' = "running"
    /\ UNCHANGED <<sends, tgLines, sent, tgCancelled, messages, replyCalls>>
    /\ UNCHANGED otherThanTg

\* lines 130-145: run_command calls _cb(line), which creates a send() task
Cb(line) ==
    /\ tgTask = "running"
    /\ Len(sends) < MaxOut
    /\ sends' = Append(sends, [pc |-> "created", line |-> line, text |-> <<>>,
                               target |-> NoMessage])
    /\ UNCHANGED <<tgPc, tgTask, tgLines, sent, tgCancelled, messages, replyCalls>>
    /\ UNCHANGED otherThanTg

\* lines 133-139: a send() task runs up to its await; tasks start in the
\* order of their creation. With sent still None it calls reply_text
SendBegin(i) ==
    /\ i <= Len(sends)
    /\ sends[i].pc = "created"
    /\ \A j \in 1..(i - 1) : sends[j].pc # "created"
    /\ tgLines' = Append(tgLines, sends[i].line)
    /\ sends' = [sends EXCEPT ![i].text = join(<<NL>>, tgLines'),
                              ![i].pc = IF sent = NoMessage THEN "replying" ELSE "editing",
                              ![i].target = sent]
    /\ replyCalls' = IF sent = NoMessage THEN replyCalls + 1 ELSE replyCalls
    /\ UNCHANGED <<tgPc, tgTask, sent, tgCancelled, messages>>
    /\ UNCHANGED otherThanTg

\* line 137: reply_text returns the message it created
SendReplied(i) ==
    /\ i <= Len(sends)
    /\ sends[i].pc = "replying"
    /\ messages' = Append(messages, sends[i].text)
    /\ sent' = Len(messages) + 1
    /\ sends' = [sends EXCEPT ![i].pc = "done"]
    /\ UNCHANGED <<tgPc, tgTask, tgLines, tgCancelled, replyCalls>>
    /\ UNCHANGED otherThanTg

\* line 139: edit_text returns
SendEdited(i) ==
    /\ i <= Len(sends)
    /\ sends[i].pc = "editing"
    /\ messages' = [messages EXCEPT ![sends[i].target] = sends[i].text]
    /\ sends' = [sends EXCEPT ![i].pc = "done"]
    /\ UNCHANGED <<tgPc, tgTask, tgLines, sent, tgCancelled, replyCalls>>
    /\ UNCHANGED otherThanTg

\* lines 140-143: reply_text or edit_text raises TelegramError; the task is
\* cancelled if it is still running
SendFailed(i) ==
    /\ i <= Len(sends)
    /\ sends[i].pc \in {"replying", "editing"}
    /\ tgCancelled' = TRUE
    /\ tgTask' = IF tgTask = "running" THEN "cancelled" ELSE tgTask
    /\ sends' = [sends EXCEPT ![i].pc = "failed"]
    /\ UNCHANGED <<tgPc, tgLines, sent, messages, replyCalls>>
    /\ UNCHANGED otherThanTg

\* run_command returns
ExecReturn ==
    /\ tgTask = "running"
    /\ tgTask' = "returned"
    /\ UNCHANGED <<tgPc, sends, tgLines, sent, tgCancelled, messages, replyCalls>>
    /\ UNCHANGED otherThanTg

\* The text run_command returned: the lines it handed to _cb
TgOutput == strip(join(<<NL>>, [i \in 1..Len(sends) |-> sends[i].line]))

\* lines 149-150 and 155-156: the await of the task ends, by its result or by
\* CancelledError; the message, if there is one, is about to be edited
TgResume ==
    /\ tgPc = "await_task"
    /\ tgTask \in {"returned", "cancelled"}
    /\ tgPc' = IF sent # NoMessage /\ (tgTask = "cancelled" \/ ~tgCancelled)
               THEN "final_edit" ELSE "done"
    /\ UNCHANGED <<tgTask, sends, tgLines, sent, tgCancelled, messages, replyCalls>>
    /\ UNCHANGED otherThanTg

\* lines 152 and 158: sent.edit_text(output) or sent.edit_text("cancelled")
\* returns
TgFinalEdited ==
    /\ tgPc = "final_edit"
    /\ messages' = [messages EXCEPT ![sent] = IF tgTask = "cancelled"
                                             THEN <<"cancelled">> ELSE TgOutput]
    /\ tgPc' = "done"
    /\ UNCHANGED <<tgTask, sends, tgLines, sent, tgCancelled, replyCalls>>
    /\ UNCHANGED otherThanTg

\* lines 153-154 and 159-160: it raises TelegramError, which is passed over
TgFinalFailed ==
    /\ tgPc = "final_edit"
    /\ tgPc' = "done"
    /\ UNCHANGED <<tgTask, sends, tgLines, sent, tgCancelled, messages, replyCalls>>
    /\ UNCHANGED otherThanTg

TgInit ==
    /\ tgPc = "idle"
    /\ tgTask = "none"
    /\ sends = <<>>
    /\ tgLines = <<>>
    /\ sent = NoMessage
    /\ tgCancelled = FALSE
    /\ messages = <<>>
    /\ replyCalls = 0

-----------------------------------------------------------------------------
(* JobTable, as spec.md describes it (sections 3 and 4.3): background jobs, *)
(* one reader per job feeding its buffer, and poll draining and reclaiming. *)

JobIds == 1..MaxJobs

\* The k-th line a background command writes (as "for i in 1 2 3; do echo $i;
\* done" does)
JobLine(k) == <<k>>

\* No job is tracked under the id
NoJob == [state |-> "none", buffer |-> <<>>, readerDone |-> FALSE]

Tracked(id) == jobs[id].state # "none"

\* list(): the tracked jobs, by id
list == {id \in JobIds : Tracked(id)}

\* start(command): the process is spawned and registered, its reader begins
JobStart(id) ==
    /\ ~jobStarted[id]
    /\ \A j \in 1..(id - 1) : jobStarted[j]
    /\ jobStarted' = [jobStarted EXCEPT ![id] = TRUE]
    /\ jobs' = [jobs EXCEPT ![id] = [state |-> "Running", buffer |-> <<>>,
                                     readerDone |-> FALSE]]
    /\ UNCHANGED <<jobPipe, jobProduced, jobDelivered, killOutcome>>
    /\ UNCHANGED otherThanJobs

\* The job's process writes a line
JobWrite(id) ==
    /\ jobStarted[id]
    /\ jobs[id].state = "Running"
    /\ Len(jobProduced[id]) < MaxJobLines
    /\ jobPipe' = [jobPipe EXCEPT ![id] = Append(@, JobLine(Len(jobProduced[id]) + 1))]
    /\ jobProduced' = [jobProduced EXCEPT ![id] = Append(@, JobLine(Len(@) + 1))]
    /\ UNCHANGED <<jobs, jobStarted, jobDelivered, killOutcome>>
    /\ UNCHANGED otherThanJobs

\* The job's process terminates: Running -> Exited
JobExit(id) ==
    /\ jobs[id].state = "Running"
    /\ jobs' = [jobs EXCEPT ![id].state = "Exited"]
    /\ UNCHANGED <<jobStarted, jobPipe, jobProduced, jobDelivered, killOutcome>>
    /\ UNCHANGED otherThanJobs

\* kill(id): the process is terminated and the job stays in the table; an
\* unknown id gives NoSuchJob
JobKill(id) ==
    /\ jobStarted[id]
    /\ killOutcome' = IF Tracked(id) THEN "terminated" ELSE "NoSuchJob"
    /\ jobs' = IF jobs[id].state = "Running"
               THEN [jobs EXCEPT ![id].state = "Exited"] ELSE jobs
    /\ UNCHANGED <<jobStarted, jobPipe, jobProduced, jobDelivered>>
    /\ UNCHANGED otherThanJobs

\* The job's reader moves one line from the process's output to the buffer
ReaderLine(id) ==
    /\ Tracked(id)
    /\ jobPipe[id] # <<>>
    /\ jobs' = [jobs EXCEPT ![id].buffer = Append(@, Head(jobPipe[id]))]
    /\ jobPipe' = [jobPipe EXCEPT ![id] = Tail(@)]
    /\ UNCHANGED <<jobStarted, jobProduced, jobDelivered, killOutcome>>
    /\ UNCHANGED otherThanJobs

\* The reader meets the end of the output and finishes
ReaderEof(id) ==
    /\ jobs[id].state = "Exited"
    /\ ~jobs[id].readerDone
    /\ jobPipe[id] = <<>>
    /\ jobs' = [jobs EXCEPT ![id].readerDone = TRUE]
    /\ UNCHANGED <<jobStarted, jobPipe, jobProduced, jobDelivered, killOutcome>>
    /\ UNCHANGED otherThanJobs

\* The reclaim rule of poll: the process has exited, the buffer is drained
\* and the reader has finished
Reclaimable_noReader(id) == jobs[id].state = "Exited"
Reclaimable(id) == jobs[id].state = "Exited" /\ jobs[id].readerDone

\* poll(): every tracked job's buffered lines are drained, in order, and the
\* jobs that can be reclaimed are removed
Poll ==
    /\ list # {}
    /\ jobDelivered' = [id \in JobIds |-> jobDelivered[id] \o jobs[id].buffer]
    /\ jobs' = [id \in JobIds |->
                   IF Tracked(id) /\ Reclaimable(id) THEN NoJob
                   ELSE [jobs[id] EXCEPT !.buffer = <<>>]]
    /\ UNCHANGED <<jobStarted, jobPipe, jobProduced, killOutcome>>
    /\ UNCHANGED otherThanJobs

JobsInit ==
    /\ jobs = [id \in JobIds |-> NoJob]
    /\ jobStarted = [id \in JobIds |-> FALSE]
    /\ jobPipe = [id \in JobIds |-> <<>>]
    /\ jobProduced = [id \in JobIds |-> <<>>]
    /\ jobDelivered = [id \in JobIds |-> <<>>]
    /\ killOutcome = "none"

-----------------------------------------------------------------------------
(* bridge.py: the HTTP /run handler and its rate limiter *)

\* credentials.username of the requests
Clients == {"alice", "bob"}

\* Values of RATE_LIMIT_SEC, in seconds; 1 is the default
RateLimits == {1, 2}

\* Readings of time.time(), in seconds since the epoch
Times == 0..MaxNow

NoRequest == [client |-> "none", status |-> 0, first |-> FALSE, at |-> 0,
              before |-> <<>>, forwarded |-> FALSE]

\* line 75, at import: RATE_LIMIT = float(os.getenv("RATE_LIMIT_SEC", "1")),
\* the system clock reading whatever it reads
RateBoot(limit, t) ==
    /\ ratePc = "init"
    /\ ratePc' = "serving"
    /\ RATE_LIMIT' = limit
    /\ wall' = t
    /\ UNCHANGED <<_last_call, accepts, requested, httpReq>>
    /\ UNCHANGED otherThanRate

\* A second passes
RateTick ==
    /\ ratePc = "serving"
    /\ wall < MaxNow
    /\ wall' = wall + 1
    /\ UNCHANGED <<ratePc, RATE_LIMIT, _last_call, accepts, requested, httpReq>>
    /\ UNCHANGED otherThanRate

\* The system clock is set (time.time() is the wall clock, not monotonic)
ClockSet(t) ==
    /\ ratePc = "serving"
    /\ t # wall
    /\ wall' = t
    /\ UNCHANGED <<ratePc, RATE_LIMIT, _last_call, accepts, requested, httpReq>>
    /\ UNCHANGED otherThanRate

\* _last_call.get(client, 0)
LastCallOr(client) ==
    IF client \in DOMAIN _last_call THEN _last_call[client] ELSE 0

\* lines 80-81: the test of _check_rate, now = time.time()
RateExceeded(client) == wall - LastCallOr(client) < RATE_LIMIT

\* lines 90-91: the password is not API_TOKEN: 401
HttpUnauthorized(client) ==
    /\ ratePc = "serving"
    /\ httpReq' = [client |-> client, status |-> 401, first |-> FALSE, at |-> wall,
                   before |-> _last_call, forwarded |-> FALSE]
    /\ UNCHANGED <<ratePc, RATE_LIMIT, wall, _last_call, accepts, requested>>
    /\ UNCHANGED otherThanRate

\* lines 92 and 80-82: _check_rate raises HTTPException(429)
HttpRejected(client) ==
    /\ ratePc = "serving"
    /\ RateExceeded(client)
    /\ httpReq' = [client |-> client, status |-> 429, first |-> client \notin requested,
                   at |-> wall, before |-> _last_call, forwarded |-> FALSE]
    /\ requested' = requested \cup {client}
    /\ UNCHANGED <<ratePc, RATE_LIMIT, wall, _last_call, accepts>>
    /\ UNCHANGED otherThanRate

\* lines 92-94 and 80-83: _check_rate records now and returns; the command
\* is passed to letsgo.run
HttpAccepted(client) ==
    /\ ratePc = "serving"
    /\ ~RateExceeded(client)
    /\ _last_call' = [c \in DOMAIN _last_call \cup {client} |->
                         IF c = client THEN wall ELSE _last_call[c]]
    /\ accepts' = [accepts EXCEPT ![client] = Append(@, wall)]
    /\ httpReq' = [client |-> client, status |-> 200, first |-> client \notin requested,
                   at |-> wall, before |-> _last_call, forwarded |-> TRUE]
    /\ requested' = requested \cup {client}
    /\ UNCHANGED <<ratePc, RATE_LIMIT, wall>>
    /\ UNCHANGED otherThanRate

RateInit ==
    /\ ratePc = "init"
    /\ RATE_LIMIT = 1
    /\ wall = 0
    /\ _last_call = <<>>
    /\ accepts = [c \in Clients |-> <<>>]
    /\ requested = {}
    /\ httpReq = NoRequest

-----------------------------------------------------------------------------
(* The bridge and its console *)

OracleInit ==
    /\ proc = "none"
    /\ mainPc = "init"
    /\ call = [h \in Handlers |-> Idle]
    /\ waiter = "none"
    /\ last = NoOutcome
    /\ turns = 0
    /\ conPc = "none"
    /\ conPrompt = PromptDefault
    /\ stdinBuf = <<>>
    /\ outBuf = <<>>
    /\ outEof = FALSE
    /\ sentinelPrinted = FALSE

Init == OracleInit /\ RunInit /\ FilesInit /\ TgInit /\ JobsInit /\ RateInit

Next ==
    \/ MainStart
    \/ ServeApp
    \/ StartReadLine
    \/ ConsoleBoot
    \/ ConsoleBootFail
    \/ ConsoleTurn
    \/ ConsoleExit
    \/ ConsoleDie
    \/ \E h \in Handlers, cmd \in Cmds : RunNotStarted(h, cmd)
    \/ \E h \in Handlers, cmd \in Cmds : RunWrite(h, cmd)
    \/ \E h \in Handlers : RunDrain(h)
    \/ \E h \in Handlers : RunDrainReset(h)
    \/ \E h \in Handlers : RunBlock(h)
    \/ \E h \in Handlers : RunReaderBusy(h)
    \/ \E h \in Handlers : RunReadEof(h)
    \/ \E h \in Handlers : RunReadSentinel(h)
    \/ \E h \in Handlers : RunReadAppend(h)

Spec == Init /\ [][Next]_vars

NextRun ==
    \/ \E who \in Callers, colr \in BOOLEAN, desc \in BOOLEAN : Spawn(who, colr, desc)
    \/ \E who \in Callers, colr \in BOOLEAN, err \in SpawnErrors : SpawnFail(who, colr, err)
    \/ LoopTimeout
    \/ LoopRead
    \/ ReadLine
    \/ CallSink
    \/ ReadEof
    \/ ReadTimeout
    \/ KillRaises
    \/ CommunicateDone
    \/ WaitDone
    \/ Cancel
    \/ MainReply
    \/ \E l \in RawLines : ProcWrite(l)
    \/ ProcCloseStdout
    \/ \E code \in {0, 1} : ProcExit(code)
    \/ DescExit
    \/ Tick

SpecRun == Init /\ [][NextRun]_vars

NextLogs ==
    \/ MakeLogDir
    \/ \E f \in LogNames, line \in FileLines : Log(f, line)
    \/ \E term \in Terms, limit \in Limits, hist \in BOOLEAN : Summarize(term, limit, hist)
    \/ Printed

SpecLogs == Init /\ [][NextLogs]_vars

NextHistory ==
    \/ MakeLogDir
    \/ \E line \in FileLines : WriteHistory(line)
    \/ \E limit \in HistoryLimits : History(limit)
    \/ \E term \in Terms, limit \in Limits : Summarize(term, limit, TRUE)
    \/ Printed

SpecHistory == Init /\ [][NextHistory]_vars

NextTg ==
    \/ TgStream
    \/ \E line \in StreamLines : Cb(line)
    \/ \E i \in 1..MaxOut : SendBegin(i)
    \/ \E i \in 1..MaxOut : SendReplied(i)
    \/ \E i \in 1..MaxOut : SendEdited(i)
    \/ \E i \in 1..MaxOut : SendFailed(i)
    \/ ExecReturn
    \/ TgResume
    \/ TgFinalEdited
    \/ TgFinalFailed

SpecTg == Init /\ [][NextTg]_vars

NextJobs ==
    \/ \E id \in JobIds : JobStart(id)
    \/ \E id \in JobIds : JobWrite(id)
    \/ \E id \in JobIds : JobExit(id)
    \/ \E id \in JobIds : JobKill(id)
    \/ \E id \in JobIds : ReaderLine(id)
    \/ \E id \in JobIds : ReaderEof(id)
    \/ Poll

\* The reader of each job keeps running, and poll is called again and again
SpecJobs ==
    /\ Init
    /\ [][NextJobs]_vars
    /\ WF_vars(Poll)
    /\ \A id \in JobIds : WF_vars(ReaderLine(id)) /\ WF_vars(ReaderEof(id))

NextRate ==
    \/ \E limit \in RateLimits, t \in Times : RateBoot(limit, t)
    \/ RateTick
    \/ \E t \in Times : ClockSet(t)
    \/ \E client \in Clients : HttpUnauthorized(client)
    \/ \E client \in Clients : HttpRejected(client)
    \/ \E client \in Clients : HttpAccepted(client)

SpecRate == Init /\ [][NextRate]_vars

-----------------------------------------------------------------------------
(* Claims about the console session (bridge.py) *)

\* C1: at most one run() turn is in flight on the shared session: no run()
\* has written its command or is reading while another run() has not yet
\* returned. Stated for the started session with its console alive and
\* waiting for input.
C1_SingleFlight ==
    (mainPc = "serving" /\ conPc = "input")
        => Cardinality({h \in Handlers : InFlight(h)}) <= 1

\* C2: start() does not wait forever while the console is itself waiting for
\* input: never is start() blocked in readline() (no whole line buffered, the
\* stream open) while the console sits in input() with nothing to read. No
\* step of the bridge or of the console leaves such a state.
C2_StartReturns ==
    ~(mainPc = "start_read" /\ conPc = "input" /\ stdinBuf = <<>> /\ ~CanRead)

\* C3: on a started session with a live console, a run(cmd) that no other
\* run() overlaps is never blocked for good (reading while the console waits
\* for input with nothing to read), and the reply it returns, the console
\* still alive, is what the console printed for cmd.
C3_RoundTrip ==
    /\ \A h \in Handlers :
           ~(call[h].pc = "wait" /\ ~call[h].overlap /\ ~call[h].dead
             /\ conPc = "input" /\ stdinBuf = <<>> /\ ~CanRead)
    /\ (last.kind = "reply" /\ ~last.overlap /\ ConsoleAlive /\ ~sentinelPrinted)
           => last.reply = strip(ConsolePrinted(last.cmd))

\* C4: a run() whose session was alive when it wrote its command and whose
\* read then met the end of the stream returns no reply.
C4_FailsOnClose == (last.kind = "reply" /\ ~last.dead) => ~last.byEof

\* C5: a run() on a session that is not started fails, and a run() begun
\* after the console's output stream has closed returns no reply.
C5_NotRunningFails ==
    /\ (last.kind # "none" /\ proc = "none") => last.kind = "not_started"
    /\ last.kind = "reply" => ~last.dead

\* C6: the reply of a run() that no other run() overlaps holds no sentinel
\* that the console wrote as its prompt (no command's own output held one).
C6_NoPromptInReply ==
    (last.kind = "reply" /\ ~last.overlap /\ ~sentinelPrinted)
        => ~Contains(last.reply, PROMPT)

-----------------------------------------------------------------------------
(* Claims about run_command (letsgo.py) *)

Ended == rPc \in {"returned", "cancelled"}

\* C7, as claimed: a call that returns after its timeout branch killed the
\* process returns a result that carries every line captured before the
\* deadline.
C7_TimeoutCarriesOutput ==
    (rPc = "returned" /\ outcome = "timed_out")
        => /\ killed
           /\ \A i \in 1..Len(output_lines) : Contains(result, output_lines[i])

\* C7, amended: once a timeout branch has been taken (the deadline passed
\* while run_command was still reading the output of a process whose
\* transport was open) the process has been killed and is gone, and what the
\* call then returns is the fixed text "command timed out" (between the error
\* colour codes when colour is on), without the captured lines; the sink, if
\* any, was handed every one of them.
C7_TimeoutFixedText ==
    /\ outcome = "timed_out" => (killed /\ shell = "exited")
    /\ (rPc = "returned" /\ outcome = "timed_out")
           => /\ result = IF useColor
                          THEN <<"ESC[31m", "command timed out", "ESC[0m">>
                          ELSE <<"command timed out">>
              /\ HasSink => sunk = output_lines

C7_Witness ==
    /\ rPc = "returned"
    /\ outcome = "timed_out"
    /\ output_lines # <<>>
    /\ output_lines[1] # <<>>

C9_ReturnsByDeadline == clock > Deadline + SmallBound => Ended

\* C10: a call that ended by timeout or by cancellation leaves no running
\* process behind.
C10_NoOrphan ==
    (rPc = "cancelled" \/ (rPc = "returned" /\ outcome = "timed_out"))
        => shell # "running"

\* The text with the error colour codes around it
Wrapped(t) == <<"ESC[31m">> \o t \o <<"ESC[0m">>

\* C11, as claimed: a cancelled run ends by returning a result to its caller.
C11_CancelReturnsData == outcome = "cancelled" => rPc = "returned"

\* C11, amended: a cancelled run ends by raising the cancellation out of
\* run_command and returns no text; no other run ends that way, and every run
\* that returns does so as an exit, a timeout or an error, so that the
\* cancellation is told apart from each of them.
C11_CancelRaises ==
    /\ (outcome = "cancelled") <=> (rPc = "cancelled")
    /\ rPc = "cancelled" => result = <<>>
    /\ rPc = "returned" => outcome \in {"exited", "timed_out", "error", "spawn_failed"}

C11_Witness == rPc = "cancelled" /\ shell = "running" /\ Len(sunk) = 1

\* C12, as claimed: a call whose process was never spawned does not end by
\* returning a text result.
C12_SpawnFailureSignalled ==
    (shell = "none" /\ rPc # "init") => rPc # "returned"

\* C12, amended: when the process cannot be spawned the call returns, and
\* what it returns is the error's message, between the error colour codes
\* when colour is on; nothing was captured and the sink was handed nothing.
C12_SpawnFailureIsText ==
    outcome = "spawn_failed"
        => /\ rPc = "returned"
           /\ shell = "none"
           /\ output_lines = <<>> /\ sunk = <<>>
           /\ \E err \in SpawnErrors :
                  result = IF useColor THEN Wrapped(err) ELSE err

C12_Witness == outcome = "spawn_failed" /\ useColor /\ caller = "console"

DecodedOutput == [i \in 1..Len(produced) |-> rstrip(produced[i])]

\* C14, as claimed: the sink has been handed every line that is in the
\* accumulated buffer (it is handed a line before the line is appended), and
\* the sink's lines and the buffer are prefixes of the process's output.
C14_SinkBeforeBuffer ==
    HasSink => /\ IsPrefix(output_lines, sunk)
               /\ IsPrefix(sunk, DecodedOutput)
               /\ IsPrefix(output_lines, DecodedOutput)

\* C14, amended: a line is appended to the accumulated buffer and then handed
\* to the sink: the sink's lines are a prefix of the buffer, which is one line
\* ahead exactly between the append and the sink's call, and the buffer is a
\* prefix of the process's output, in the order the process wrote it.
C14_BufferThenSink ==
    /\ IsPrefix(output_lines, DecodedOutput)
    /\ HasSink => /\ IsPrefix(sunk, output_lines)
                  /\ Len(output_lines) - Len(sunk) = IF rPc = "sink" THEN 1 ELSE 0

C14_Witness ==
    /\ rPc = "sink"
    /\ Len(output_lines) = 2 /\ Len(sunk) = 1
    /\ output_lines[1] # output_lines[2]

\* C15, as claimed: the text returned for a process that exited is the
\* process's whole output with only its trailing whitespace trimmed (the
\* error colour codes around it or not).
C15_TrailingTrimOnly ==
    (rPc = "returned" /\ outcome = "exited")
        => LET text == rstrip(Concat(produced))
           IN  result \in {text, Wrapped(text)}

\* C15, amended: the text returned for a process that exited is the process's
\* output with the trailing whitespace of every line removed, the lines
\* joined by newlines, and then the whitespace at both ends of the whole
\* removed (the error colour codes around it when the exit status is not zero
\* and colour is on).
C15_LinesTrimmed ==
    (rPc = "returned" /\ outcome = "exited")
        => LET text == strip(join(<<NL>>, DecodedOutput))
           IN  result = IF rc # 0 /\ useColor THEN Wrapped(text) ELSE text

C15_Witness ==
    /\ rPc = "returned" /\ outcome = "exited"
    /\ produced = << <<NL>>, <<SP, "a", SP, NL>> >>
    /\ result = <<"a">>

-----------------------------------------------------------------------------
(* Claims about the start of the console session (bridge.py) *)

\* C18: start() returns normally only by reading a sentinel line: the step of
\* _read_until_prompt that ends start() is the read of a line that, stripped,
\* is the sentinel, never the read of the end of the stream.
C18_StartNeedsSentinel ==
    [][(mainPc = "start_read" /\ mainPc' = "serving")
           => (ReadResult # <<>> /\ strip(ReadResult) = PROMPT)]_vars

-----------------------------------------------------------------------------
(* Claims about summarize and history (letsgo.py) *)

\* The last k elements of a sequence, all of it when it has fewer
LastN(seq, k) ==
    IF k >= Len(seq) THEN seq ELSE SubSeq(seq, Len(seq) - k + 1, Len(seq))

\* The lines of all the logs, in the order of the files' names, that match
\* the term of the call being answered
MatchingLogLines ==
    SelectSeq(Concat(logFiles),
              LAMBDA line : fnCall.term = <<>> \/ Contains(line, fnCall.term))

\* A summarize call over the logs, the directory present and the term a
\* pattern that compiles
SummarizedLogs ==
    /\ fnCall.op = "summarize" /\ ~fnCall.history
    /\ logDirExists
    /\ fnCall.term # InvalidTerm

\* C16, as claimed: summarize returns the last `limit` matching lines, joined
\* by newlines, whatever the limit, and "no matches" when no line matches.
C16_LastMatches ==
    SummarizedLogs
        => fnResult = IF MatchingLogLines = <<>> THEN <<"no matches">>
                      ELSE join(<<NL>>, LastN(MatchingLogLines, fnCall.limit))

\* C16, amended: for a limit of at least 1 summarize returns the last `limit`
\* matching lines, in their order, joined by newlines; it returns "no matches"
\* when no line matches and also when the limit is 0.
C16_LastMatchesPositive ==
    SummarizedLogs
        => fnResult = IF MatchingLogLines = <<>> \/ fnCall.limit = 0
                      THEN <<"no matches">>
                      ELSE join(<<NL>>, LastN(MatchingLogLines, fnCall.limit))

C16_Witness ==
    /\ SummarizedLogs
    /\ fnCall.limit = DefaultLimit /\ fnCall.term = <<"f">>
    /\ Len(MatchingLogLines) = 6
    /\ logFiles[1] # <<>> /\ logFiles[2] # <<>>
    /\ Head(logFiles[1]) # Head(logFiles[2])
    /\ fnResult = join(<<NL>>, Tail(MatchingLogLines))

\* C19: history(limit) returns the last min(limit, n) lines of the n-line
\* history file, in the file's order and joined by newlines, for every limit
\* from 0 up, and "no history" when the file does not exist.
C19_LastLimitLines ==
    fnCall.op = "history"
        => fnResult = IF ~historyFile.exists THEN <<"no history">>
                      ELSE join(<<NL>>, LastN(historyFile.lines, fnCall.limit))

-----------------------------------------------------------------------------
(* Claims about the Telegram handler (bridge.py) *)

\* C20: for one streamed command reply_text is called at most once, and every
\* send() task that does not call it edits the message that call created.
C20_SingleReplyMessage ==
    /\ replyCalls <= 1
    /\ Len(messages) <= 1
    /\ \A i \in 1..Len(sends) : sends[i].pc = "editing" => sends[i].target = 1

-----------------------------------------------------------------------------
(* Claims about the JobTable (spec.md) *)

\* C17: what poll() has returned for a job is always a prefix of what its
\* process wrote (each line once, in order); a job that start() returned is
\* absent from list() only when every line it wrote has been returned; and,
\* the readers running and poll() being called again and again, every line a
\* process wrote is returned in the end.
C17_ReclaimSafety ==
    /\ [](\A id \in JobIds :
             /\ IsPrefix(jobDelivered[id], jobProduced[id])
             /\ (jobStarted[id] /\ id \notin list)
                    => jobDelivered[id] = jobProduced[id])
    /\ \A id \in JobIds : \A k \in 1..MaxJobLines :
           (Len(jobProduced[id]) >= k) ~> (Len(jobDelivered[id]) >= k)

C17_Witness ==
    /\ jobStarted[1] /\ 1 \notin list
    /\ Len(jobProduced[1]) = 4
    /\ jobProduced[1][1] # jobProduced[1][2]
    /\ jobDelivered[1] = jobProduced[1]

-----------------------------------------------------------------------------
(* Claims about the rate limiter (bridge.py) *)

-----------------------------------------------------------------------------
(* Claims about the console's "/run" branch (letsgo.py main) *)

\* A printed text without the colour codes
Plain(text) == SelectSeq(text, LAMBDA ch : ch \notin {"ESC[31m", "ESC[0m"})

\* The lines of a text
RECURSIVE splitlines(_)
splitlines(text) ==
    IF text = <<>> THEN << <<>> >>
    ELSE LET rest == splitlines(Tail(text))
         IN  IF Head(text) = NL THEN << <<>> >> \o rest
             ELSE << <<Head(text)>> \o rest[1] >> \o Tail(rest)

\* The lines the terminal shows after the given print() calls
RECURSIVE ShownLines(_)
ShownLines(prints) ==
    IF prints = <<>> THEN <<>>
    ELSE splitlines(Plain(Head(prints))) \o ShownLines(Tail(prints))

Count(l, ls) == Cardinality({i \in DOMAIN ls : ls[i] = l})

\* C22: when main has handled a "/run" input, every output line of the
\* command is on the terminal exactly as many times as the command wrote it,
\* whatever the exit status and with colour on or off.
C22_PrintedOnce ==
    runHandled =>
        \A i \in DOMAIN output_lines :
            Count(output_lines[i], ShownLines(terminal)) = Count(output_lines[i], output_lines)

====
